---- MODULE Spec2Model ----
(***************************************************************************)
(* Shipment CRUD service: the request schemas (app/schemas/shipment.py),   *)
(* the SQLite repository (app/repositories/shipment_repository.py over the *)
(* table of app/db/init_db.py), the service layer                          *)
(* (app/services/shipment_service.py), its HTTP endpoints                  *)
(* (app/api/v1/endpoints/shipments.py), and the in-memory variant of the   *)
(* same API (app/main.py with app/schemas.py).                             *)
(*                                                                         *)
(* Weights are real numbers in the program; the model measures them in     *)
(* tenths of a kilogram, so 0.6 kg is 6 and the 25 kg limit is 250.        *)
(* An Optional value is a sequence of length at most one: None is <<>>,    *)
(* a present value v is <<v>>.                                             *)
(***************************************************************************)
EXTENDS Integers, Sequences, FiniteSets, TLC

VARIABLES
    table,      \* rows of the SQLite table shipments: id -> row
    seq,        \* sqlite_sequence of the AUTOINCREMENT key: largest id ever assigned
    shipments,  \* the in-memory store of app/main.py: id -> record
    assigned,   \* history: the ids the in-memory create_shipment has assigned, in order
    writes,     \* history: how many in-memory updates and patches reached the store
    deleted,    \* history: the ids whose row a request removed from the SQL table
    threads,    \* the requests in flight, each at a point between two of its steps
    conn,       \* the connection of the repository call in progress under get_db
    last        \* the last request handled and its outcome

vars == <<table, seq, shipments, assigned, writes, deleted, threads, conn, last>>

(***************************************************************************)
(* Bounds of the model.                                                    *)
(***************************************************************************)
MaxId == 2          \* the SQL store assigns at most this many ids
MaxCreates == 2     \* the in-memory store handles at most this many creates
MaxWrites == 1      \* and at most this many updates and patches of a stored record

(***************************************************************************)
(* Optional values and small helpers.                                      *)
(***************************************************************************)
None == <<>>
Some(v) == <<v>>
IsNone(o) == Len(o) = 0
Get(o) == o[1]

Max(S) == CHOOSE m \in S : \A x \in S : x <= m

(***************************************************************************)
(* Program constants.                                                      *)
(***************************************************************************)
ContentMaxLength == 100     \* max_length=100
WeightLimit == 250          \* 25 kg
DestinationMin == 11000
DestinationMax == 11999

Fields == {"content", "weight", "status", "destination"}

\* Columns of the table, in the order CREATE TABLE declares them; dict(row)
\* has exactly these keys in this order.
Columns == <<"id", "content", "weight", "status", "destination">>

\* class ShipmentStatus(str, Enum): member name -> value
ShipmentStatus ==
    [PENDING |-> "pending", IN_TRANSIT |-> "in transit", DELIVERED |-> "delivered",
     DELAYED |-> "delayed", RETURNED |-> "returned"]

StatusMembers == DOMAIN ShipmentStatus
StatusValues == {ShipmentStatus[m] : m \in StatusMembers}
\* ShipmentStatus(value): the member with that value
StatusOf(value) == CHOOSE m \in StatusMembers : ShipmentStatus[m] = value

(***************************************************************************)
(* Sample request values. Contents of length 0, 100 and 101; weights 0,    *)
(* 24.9, 25 and 30 kg; a status of the enumeration and one that is not in  *)
(* it; destinations on and just outside the range's ends.                  *)
(***************************************************************************)
c10 == "abcdefghij"
c50 == c10 \o c10 \o c10 \o c10 \o c10
c100 == c50 \o c50
c101 == c100 \o "x"

SampleContents == {"", c100, c101}
SampleWeights == {0, 249, 250, 300}
SampleStatuses == {"delivered", "in_transit"}
SampleDestinations == {10999, 11000, 11999, 12000}

\* The values a JSON body may give a field: null or a sample value.
ContentValues == {None} \cup {Some(v) : v \in SampleContents}
WeightValues == {None} \cup {Some(v) : v \in SampleWeights}
StatusTexts == {None} \cup {Some(v) : v \in SampleStatuses}
DestinationValues == {None} \cup {Some(v) : v \in SampleDestinations}

\* JSON request bodies. fields_set holds the fields the body names (what
\* pydantic records as model_fields_set); a field the body does not name has
\* its default, None.
Bodies ==
    {b \in [fields_set : SUBSET Fields, content : ContentValues, weight : WeightValues,
            status : StatusTexts, destination : DestinationValues] :
        \A f \in Fields \ b.fields_set : IsNone(b[f])}

(***************************************************************************)
(* Field constraints of app/schemas/shipment.py.                           *)
(***************************************************************************)
ContentOk(c) == Len(c) <= ContentMaxLength
\* Mutant of WeightOk: le=25 in place of lt=25.
WeightOk_AtMostLimit(w) == w > 0 /\ w <= WeightLimit
WeightOk(w) == w > 0 /\ w < WeightLimit
StatusOk(s) == s \in StatusValues
\* Mutant of DestinationOk: le=12000 in place of le=11999.
DestinationOk_UpTo12000(d) == d >= DestinationMin /\ d <= DestinationMax + 1
DestinationOk(d) == d >= DestinationMin /\ d <= DestinationMax

\* A required field (Field(...)) is named by the body and not null; an
\* Optional field with default None may be absent or null. Either is within
\* its constraint when it has a value.
Present(b, f) == f \in b.fields_set /\ ~IsNone(b[f])

ShipmentBaseValid(b) ==
    /\ (Present(b, "content") /\ ContentOk(Get(b.content)))
    /\ (Present(b, "weight") /\ WeightOk(Get(b.weight)))
    /\ (Present(b, "status") /\ StatusOk(Get(b.status)))

ShipmentCreateValid(b) ==
    /\ ShipmentBaseValid(b)
    /\ (IsNone(b.destination) \/ DestinationOk(Get(b.destination)))
ShipmentUpdateValid(b) ==
    /\ ShipmentBaseValid(b)
    /\ (Present(b, "destination") /\ DestinationOk(Get(b.destination)))
ShipmentPatchValid(b) ==
    /\ (IsNone(b.content) \/ ContentOk(Get(b.content)))
    /\ (IsNone(b.weight) \/ WeightOk(Get(b.weight)))
    /\ (IsNone(b.status) \/ StatusOk(Get(b.status)))
    /\ (IsNone(b.destination) \/ DestinationOk(Get(b.destination)))

\* The validated models. status is parsed to a member of the enumeration.
ShipmentCreate(b) ==
    [content |-> Get(b.content), weight |-> Get(b.weight),
     status |-> StatusOf(Get(b.status)), destination |-> b.destination]

ShipmentUpdate(b) ==
    [content |-> Get(b.content), weight |-> Get(b.weight),
     status |-> StatusOf(Get(b.status)), destination |-> Get(b.destination)]

ShipmentPatch(b) ==
    [fields_set |-> b.fields_set, content |-> b.content, weight |-> b.weight,
     status |-> IF IsNone(b.status) THEN None ELSE Some(StatusOf(Get(b.status))),
     destination |-> b.destination]

\* data.model_dump(exclude_unset=True): the fields that were set, with their values.
model_dump_exclude_unset(data) == [f \in data.fields_set |-> data[f]]

\* Shipment(**row): the response model validates the row read back.
ShipmentValid(row) ==
    /\ ContentOk(row.content)
    /\ WeightOk(row.weight)
    /\ StatusOk(row.status)
    /\ DestinationOk(row.destination)

Shipment(row) ==
    [id |-> row.id, content |-> row.content, weight |-> row.weight,
     status |-> StatusOf(row.status), destination |-> row.destination]

(***************************************************************************)
(* The SQLite store. db is the record [table, seq]; every repository call  *)
(* runs one statement inside get_db, which commits when the statement      *)
(* succeeded and commits nothing when it raised.                           *)
(***************************************************************************)
EmptyTable == [i \in {} |-> None]

\* The columns declared NOT NULL reject a NULL parameter (sqlite3.IntegrityError).
NotNull(values) == \A i \in DOMAIN values : ~IsNone(values[i])

\* A repository call's result: ok is FALSE when the statement raised.
Done(db, value) == [ok |-> TRUE, db |-> db, value |-> value]
Failed(db) == [ok |-> FALSE, db |-> db, value |-> None]

find_by_id(db, shipment_id) ==
    IF shipment_id \in DOMAIN db.table THEN Some(db.table[shipment_id]) ELSE None

find_all(db) == {db.table[i] : i \in DOMAIN db.table}

\* SELECT * FROM shipments ORDER BY id DESC LIMIT 1
find_latest(db) ==
    IF DOMAIN db.table = {} THEN None ELSE Some(db.table[Max(DOMAIN db.table)])

\* Mutant of exists: the SELECT without its WHERE clause.
exists_AnyRow(db, shipment_id) == DOMAIN db.table # {}
exists(db, shipment_id) == shipment_id \in DOMAIN db.table

\* Mutant of insert: a key without AUTOINCREMENT, one more than the largest
\* id in the table.
insert_MaxRowid(db, content, weight, status, destination) ==
    IF ~NotNull(<<content, weight, status, destination>>) THEN Failed(db)
    ELSE LET last_id == IF DOMAIN db.table = {} THEN 1 ELSE Max(DOMAIN db.table) + 1
             row == [id |-> last_id, content |-> Get(content), weight |-> Get(weight),
                     status |-> Get(status), destination |-> Get(destination)]
         IN Done([table |-> [i \in DOMAIN db.table \cup {last_id} |->
                                IF i = last_id THEN row ELSE db.table[i]],
                  seq |-> IF last_id > db.seq THEN last_id ELSE db.seq],
                 Some(last_id))

\* INSERT: the AUTOINCREMENT key is one more than the largest id ever assigned.
insert(db, content, weight, status, destination) ==
    IF ~NotNull(<<content, weight, status, destination>>) THEN Failed(db)
    ELSE LET last_id == db.seq + 1
             row == [id |-> last_id, content |-> Get(content), weight |-> Get(weight),
                     status |-> Get(status), destination |-> Get(destination)]
         IN Done([table |-> [i \in DOMAIN db.table \cup {last_id} |->
                                IF i = last_id THEN row ELSE db.table[i]],
                  seq |-> last_id],
                 Some(last_id))

\* Mutant of update_by_id: the UPDATE without destination = ?.
update_by_id_KeepDestination(db, shipment_id, content, weight, status, destination) ==
    IF shipment_id \notin DOMAIN db.table THEN Done(db, None)
    ELSE IF ~NotNull(<<content, weight, status, destination>>) THEN Failed(db)
    ELSE Done([db EXCEPT !.table[shipment_id] =
                   [id |-> shipment_id, content |-> Get(content), weight |-> Get(weight),
                    status |-> Get(status), destination |-> @.destination]],
              None)

\* UPDATE ... SET content = ?, weight = ?, status = ?, destination = ? WHERE id = ?
update_by_id(db, shipment_id, content, weight, status, destination) ==
    IF shipment_id \notin DOMAIN db.table THEN Done(db, None)
    ELSE IF ~NotNull(<<content, weight, status, destination>>) THEN Failed(db)
    ELSE Done([db EXCEPT !.table[shipment_id] =
                   [id |-> shipment_id, content |-> Get(content), weight |-> Get(weight),
                    status |-> Get(status), destination |-> Get(destination)]],
              None)

\* Mutant of patch_by_id: the UPDATE without its WHERE clause.
patch_by_id_EveryRow(db, shipment_id, update_data) ==
    IF DOMAIN update_data = {} THEN Done(db, None)
    ELSE IF \E key \in DOMAIN update_data : IsNone(update_data[key]) THEN Failed(db)
    ELSE Done([db EXCEPT !.table =
                   [i \in DOMAIN @ |->
                       [col \in DOMAIN @[i] |->
                           IF col \in DOMAIN update_data THEN Get(update_data[col])
                           ELSE @[i][col]]]],
              None)

\* UPDATE ... SET <the keys of update_data> WHERE id = ?
patch_by_id(db, shipment_id, update_data) ==
    IF DOMAIN update_data = {} THEN Done(db, None)
    ELSE IF shipment_id \notin DOMAIN db.table THEN Done(db, None)
    ELSE IF \E key \in DOMAIN update_data : IsNone(update_data[key]) THEN Failed(db)
    ELSE Done([db EXCEPT !.table[shipment_id] =
                   [col \in DOMAIN @ |->
                       IF col \in DOMAIN update_data THEN Get(update_data[col]) ELSE @[col]]],
              None)

\* DELETE FROM shipments WHERE id = ?
delete_by_id(db, shipment_id) ==
    Done([db EXCEPT !.table = [i \in DOMAIN @ \ {shipment_id} |-> @[i]]], None)

(***************************************************************************)
(* ShipmentService. An operation's outcome: exc names the exception raised *)
(* ("" when it returned), code and detail are the HTTPException's, ret is  *)
(* the value returned, db the store afterwards and calls the repository    *)
(* calls made, in order.                                                   *)
(***************************************************************************)
Returned(db, ret, calls) ==
    [exc |-> "", code |-> 0, detail |-> <<>>, ret |-> ret, db |-> db, calls |-> calls]
HTTPException(db, status_code, detail, calls) ==
    [exc |-> "HTTPException", code |-> status_code, detail |-> detail, ret |-> None,
     db |-> db, calls |-> calls]
\* An exception the service does not catch: sqlite3.IntegrityError from a
\* statement, pydantic's ValidationError from Shipment(**row).
Unhandled(db, exc, calls) ==
    [exc |-> exc, code |-> 0, detail |-> <<>>, ret |-> None, db |-> db, calls |-> calls]

\* The calls of an outcome, after the calls made before it.
After(calls, outcome) == [outcome EXCEPT !.calls = calls \o @]

get_shipment(db, shipment_id) ==
    LET shipment == find_by_id(db, shipment_id)
    IN IF IsNone(shipment) THEN HTTPException(db, 404, <<>>, <<"find_by_id">>)
       ELSE IF ~ShipmentValid(Get(shipment))
            THEN Unhandled(db, "ValidationError", <<"find_by_id">>)
       ELSE Returned(db, Some(Shipment(Get(shipment))), <<"find_by_id">>)

get_latest_shipment(db) ==
    LET shipment == find_latest(db)
    IN IF IsNone(shipment) THEN HTTPException(db, 404, <<>>, <<"find_latest">>)
       ELSE IF ~ShipmentValid(Get(shipment))
            THEN Unhandled(db, "ValidationError", <<"find_latest">>)
       ELSE Returned(db, Some(Shipment(Get(shipment))), <<"find_latest">>)

list_all_shipments(db) ==
    LET found == find_all(db)
    IN IF \E r \in found : ~ShipmentValid(r)
       THEN Unhandled(db, "ValidationError", <<"find_all">>)
       ELSE Returned(db, Some([i \in {r.id : r \in found} |-> Shipment(db.table[i])]),
                     <<"find_all">>)

\* Mutant of create_shipment: the destination is always drawn.
create_shipment_AlwaysDrawn(db, data, rnd) ==
    IF data.weight > WeightLimit THEN HTTPException(db, 406, <<>>, <<>>)
    ELSE LET ins == insert(db, Some(data.content), Some(data.weight),
                           Some(ShipmentStatus[data.status]), Some(rnd))
         IN IF ~ins.ok THEN Unhandled(db, "IntegrityError", <<"insert">>)
            ELSE After(<<"insert">>, get_shipment(ins.db, Get(ins.value)))

\* rnd is the value randint(11000, 11999) returns when it is called.
create_shipment(db, data, rnd) ==
    IF data.weight > WeightLimit THEN HTTPException(db, 406, <<>>, <<>>)
    ELSE LET destination == IF ~IsNone(data.destination) THEN Get(data.destination) ELSE rnd
             ins == insert(db, Some(data.content), Some(data.weight),
                           Some(ShipmentStatus[data.status]), Some(destination))
         IN IF ~ins.ok THEN Unhandled(db, "IntegrityError", <<"insert">>)
            ELSE After(<<"insert">>, get_shipment(ins.db, Get(ins.value)))

update_shipment(db, shipment_id, data) ==
    IF ~exists(db, shipment_id) THEN HTTPException(db, 404, <<>>, <<"exists">>)
    ELSE LET upd == update_by_id(db, shipment_id, Some(data.content), Some(data.weight),
                                 Some(ShipmentStatus[data.status]), Some(data.destination))
         IN IF ~upd.ok THEN Unhandled(db, "IntegrityError", <<"exists", "update_by_id">>)
            ELSE After(<<"exists", "update_by_id">>, get_shipment(upd.db, shipment_id))

patch_shipment(db, shipment_id, data) ==
    IF ~exists(db, shipment_id) THEN HTTPException(db, 404, <<>>, <<"exists">>)
    ELSE LET dumped == model_dump_exclude_unset(data)
             \* the enum is converted to its value when status is being updated
             update_data == [key \in DOMAIN dumped |->
                                IF key = "status" /\ ~IsNone(dumped[key])
                                THEN Some(ShipmentStatus[Get(dumped[key])])
                                ELSE dumped[key]]
         IN IF DOMAIN update_data = {}
            THEN After(<<"exists">>, get_shipment(db, shipment_id))
            ELSE LET pat == patch_by_id(db, shipment_id, update_data)
                 IN IF ~pat.ok
                    THEN Unhandled(db, "IntegrityError", <<"exists", "patch_by_id">>)
                    ELSE After(<<"exists", "patch_by_id">>, get_shipment(pat.db, shipment_id))

delete_shipment(db, shipment_id) ==
    IF ~exists(db, shipment_id) THEN HTTPException(db, 404, <<>>, <<"exists">>)
    ELSE Returned(delete_by_id(db, shipment_id).db, None, <<"exists", "delete_by_id">>)

get_shipment_field(db, shipment_id, field_name) ==
    LET shipment == find_by_id(db, shipment_id)
    IN IF IsNone(shipment) THEN HTTPException(db, 404, <<>>, <<"find_by_id">>)
       ELSE IF field_name \notin DOMAIN Get(shipment)
            \* Valid fields: ', '.join(shipment.keys())
            THEN HTTPException(db, 400, Columns, <<"find_by_id">>)
       ELSE Returned(db, Some(Get(shipment)[field_name]), <<"find_by_id">>)

(***************************************************************************)
(* The HTTP endpoints of app/api/v1/endpoints/shipments.py over the        *)
(* service. A body the request schema rejects is answered 422 before the   *)
(* endpoint runs; an HTTPException is answered with its status code; any   *)
(* other exception is answered 500.                                        *)
(***************************************************************************)
Ids == 1..MaxId
FieldNames == Fields \cup {"id", "bogus"}

\* randint(a, b), sampled at the two ends of its range
randint(a, b) == {a, b}

StatusCode(outcome, success) ==
    IF outcome.exc = "" THEN success
    ELSE IF outcome.exc = "HTTPException" THEN outcome.code
    ELSE 500

Db == [table |-> table, seq |-> seq]

Request(op, code) == [op |-> op, code |-> code]

\* The endpoint ran the service operation with this outcome.
Respond(op, outcome, success) ==
    /\ table' = outcome.db.table
    /\ seq' = outcome.db.seq
    /\ deleted' = deleted \cup (DOMAIN table \ DOMAIN outcome.db.table)
    /\ last' = Request(op, StatusCode(outcome, success))
    /\ UNCHANGED <<shipments, assigned, writes, threads, conn>>

\* The body failed validation: the endpoint did not run.
Reject(op) ==
    /\ last' = Request(op, 422)
    /\ UNCHANGED <<table, seq, shipments, assigned, writes, deleted, threads, conn>>

ApiGetLatestShipment == Respond("get_latest", get_latest_shipment(Db), 200)

ApiGetShipmentById == \E id \in Ids : Respond("get", get_shipment(Db, id), 200)

ApiListShipments == Respond("list", list_all_shipments(Db), 200)

ApiGetShipmentField ==
    \E id \in Ids, field_name \in FieldNames :
        Respond("get_field", get_shipment_field(Db, id, field_name), 200)

ValidCreateBodies == {x : x \in {b \in Bodies : ShipmentCreateValid(b)}}
ValidUpdateBodies == {x : x \in {b \in Bodies : ShipmentUpdateValid(b)}}
ValidPatchBodies == {x : x \in {b \in Bodies : ShipmentPatchValid(b)}}
InvalidCreateBodies == Bodies \ ValidCreateBodies
InvalidUpdateBodies == Bodies \ ValidUpdateBodies
InvalidPatchBodies == Bodies \ ValidPatchBodies

ApiCreateShipment ==
    \/ InvalidCreateBodies # {} /\ Reject("create")
    \/ /\ seq < MaxId
       /\ \E body \in ValidCreateBodies, rnd \in randint(DestinationMin, DestinationMax) :
            Respond("create", create_shipment(Db, ShipmentCreate(body), rnd), 201)

ApiUpdateShipment ==
    \/ InvalidUpdateBodies # {} /\ Reject("update")
    \/ \E id \in Ids, body \in ValidUpdateBodies :
            Respond("update", update_shipment(Db, id, ShipmentUpdate(body)), 200)

ApiPatchShipment ==
    \/ InvalidPatchBodies # {} /\ Reject("patch")
    \/ \E id \in Ids, body \in ValidPatchBodies :
            Respond("patch", patch_shipment(Db, id, ShipmentPatch(body)), 200)

ApiDeleteShipment == \E id \in Ids : Respond("delete", delete_shipment(Db, id), 204)

NoRequest == Request("none", 0)

\* Requests are handled one at a time: none is in flight between two actions,
\* and no connection is left open.
NoThreads == <<>>
NoCall == [name |-> "none", id |-> 0, weight |-> None]
NoConnection ==
    [pc |-> "none", call |-> NoCall, events |-> <<>>, raised |-> FALSE,
     before |-> [table |-> EmptyTable, seq |-> 0], work |-> [table |-> EmptyTable, seq |-> 0]]

\* The in-memory store is not part of this program: it stays empty.
InitApi ==
    /\ table = EmptyTable
    /\ seq = 0
    /\ shipments = EmptyTable
    /\ assigned = <<>>
    /\ writes = 0
    /\ deleted = {}
    /\ threads = NoThreads
    /\ conn = NoConnection
    /\ last = NoRequest

NextApi ==
    \/ ApiGetLatestShipment
    \/ ApiGetShipmentById
    \/ ApiListShipments
    \/ ApiGetShipmentField
    \/ ApiCreateShipment
    \/ ApiUpdateShipment
    \/ ApiPatchShipment
    \/ ApiDeleteShipment

SpecApi == InitApi /\ [][NextApi]_vars

(***************************************************************************)
(* The in-memory variant, app/main.py with the schemas of app/schemas.py.  *)
(* The store is the module-level dict shipments; a record's values are     *)
(* Optional, because patch_shipment stores whatever the body gave. The     *)
(* response model Shipment of app/schemas.py has no id.                    *)
(***************************************************************************)
\* app/schemas.py: status is a str without further constraint
MemBaseValid(b) ==
    /\ (Present(b, "content") /\ ContentOk(Get(b.content)))
    /\ (Present(b, "weight") /\ WeightOk(Get(b.weight)))
    /\ "status" \in b.fields_set /\ ~IsNone(b.status)

MemCreateValid(b) == MemBaseValid(b) /\ (IsNone(b.destination) \/ DestinationOk(Get(b.destination)))
MemUpdateValid(b) ==
    /\ MemBaseValid(b)
    /\ (Present(b, "destination") /\ DestinationOk(Get(b.destination)))
MemPatchValid(b) ==
    /\ (IsNone(b.content) \/ ContentOk(Get(b.content)))
    /\ (IsNone(b.weight) \/ WeightOk(Get(b.weight)))
    /\ (IsNone(b.destination) \/ DestinationOk(Get(b.destination)))

\* Shipment(**shipments[id]): every field required and within its constraint
MemShipmentValid(record) ==
    /\ ~IsNone(record.content) /\ ContentOk(Get(record.content))
    /\ ~IsNone(record.weight) /\ WeightOk(Get(record.weight))
    /\ ~IsNone(record.status)
    /\ ~IsNone(record.destination) /\ DestinationOk(Get(record.destination))

\* The records the module stores when it is imported: 12701 is fixed, the
\* other five are drawn at random; the model draws one sample for them.
FirstSeedId == 12701
LastSeedId == 12706
SeedRecord ==
    [content |-> Some("House"), weight |-> Some(6), status |-> Some("delivered"),
     destination |-> Some(11234)]
RandomSeedRecord ==
    [content |-> Some("books"), weight |-> Some(6), status |-> Some("pending"),
     destination |-> Some(DestinationMax)]
SeedShipments ==
    [sid \in FirstSeedId..LastSeedId |->
        IF sid = FirstSeedId THEN SeedRecord ELSE RandomSeedRecord]

MemIds == FirstSeedId..(LastSeedId + MaxCreates)

\* Outcomes of the in-memory handlers: as the service's, over the dict.
MemReturned(store, ret) == [exc |-> "", code |-> 0, ret |-> ret, store |-> store]
MemHTTPException(store, status_code) ==
    [exc |-> "HTTPException", code |-> status_code, ret |-> None, store |-> store]
MemUnhandled(store, exc) == [exc |-> exc, code |-> 0, ret |-> None, store |-> store]

\* return Shipment(**shipments[shipment_id])
MemResponse(store, shipment_id) ==
    IF MemShipmentValid(store[shipment_id])
    THEN MemReturned(store, Some(store[shipment_id]))
    ELSE MemUnhandled(store, "ValidationError")

\* max(shipments.keys()) raises ValueError on an empty dict
main_get_latest_shipment(store) ==
    IF DOMAIN store = {} THEN MemUnhandled(store, "ValueError")
    ELSE MemResponse(store, Max(DOMAIN store))

main_get_shipment_by_id(store, shipment_id) ==
    IF shipment_id \notin DOMAIN store THEN MemHTTPException(store, 404)
    ELSE MemResponse(store, shipment_id)

main_create_shipment(store, data, rnd) ==
    IF data.weight > WeightLimit THEN MemHTTPException(store, 406)
    ELSE IF DOMAIN store = {} THEN MemUnhandled(store, "ValueError")
    ELSE LET new_id == Max(DOMAIN store) + 1
             destination == IF ~IsNone(data.destination) THEN data.destination ELSE Some(rnd)
             stored == [i \in DOMAIN store \cup {new_id} |->
                          IF i = new_id
                          THEN [content |-> Some(data.content), weight |-> Some(data.weight),
                                status |-> Some(data.status), destination |-> destination]
                          ELSE store[i]]
         IN MemResponse(stored, new_id)

main_update_shipment(store, shipment_id, body) ==
    IF shipment_id \notin DOMAIN store THEN MemHTTPException(store, 404)
    ELSE MemResponse([store EXCEPT ![shipment_id] =
                         [content |-> Some(body.content), weight |-> Some(body.weight),
                          status |-> Some(body.status),
                          destination |-> Some(body.destination)]],
                     shipment_id)

\* the record is updated in place, key by key, before the response is built
main_patch_shipment(store, shipment_id, body) ==
    IF shipment_id \notin DOMAIN store THEN MemHTTPException(store, 404)
    ELSE LET update_data == model_dump_exclude_unset(body)
         IN MemResponse([store EXCEPT ![shipment_id] =
                            [key \in DOMAIN @ |->
                                IF key \in DOMAIN update_data THEN update_data[key]
                                ELSE @[key]]],
                        shipment_id)

main_delete_shipment(store, shipment_id) ==
    IF shipment_id \notin DOMAIN store THEN MemHTTPException(store, 404)
    ELSE MemReturned([i \in DOMAIN store \ {shipment_id} |-> store[i]], None)

\* The validated models of app/schemas.py: status stays a string.
MemShipmentCreate(b) ==
    [content |-> Get(b.content), weight |-> Get(b.weight), status |-> Get(b.status),
     destination |-> b.destination]
MemShipmentUpdate(b) ==
    [content |-> Get(b.content), weight |-> Get(b.weight), status |-> Get(b.status),
     destination |-> Get(b.destination)]

\* The sample bodies sent to the in-memory variant: the empty body, bodies
\* that give the weight alone (null, 24.9 kg, 25 kg), and complete bodies
\* without and with a destination.
MemBodies ==
    {b \in Bodies :
        \/ /\ b.fields_set \subseteq {"weight"}
           /\ b.weight \in {None, Some(249), Some(250)}
        \/ /\ {"content", "weight", "status"} \subseteq b.fields_set
           /\ b.content = Some(c100) /\ b.weight = Some(249) /\ b.status = Some("delivered")
           /\ b.destination \in {None, Some(DestinationMin)}
           /\ "destination" \in b.fields_set <=> ~IsNone(b.destination)}

MemValidCreateBodies == {x : x \in {b \in MemBodies : MemCreateValid(b)}}
MemValidUpdateBodies == {x : x \in {b \in MemBodies : MemUpdateValid(b)}}
MemValidPatchBodies == {x : x \in {b \in MemBodies : MemPatchValid(b)}}
MemInvalidCreateBodies == MemBodies \ MemValidCreateBodies
MemInvalidUpdateBodies == MemBodies \ MemValidUpdateBodies
MemInvalidPatchBodies == MemBodies \ MemValidPatchBodies

MemRespond(op, outcome, success) ==
    /\ shipments' = outcome.store
    /\ last' = Request(op, StatusCode(outcome, success))
    /\ UNCHANGED <<table, seq, deleted, threads, conn>>

MemReject(op) ==
    /\ last' = Request(op, 422)
    /\ UNCHANGED <<table, seq, shipments, assigned, writes, deleted, threads, conn>>

MemGetLatestShipment ==
    /\ MemRespond("get_latest", main_get_latest_shipment(shipments), 200)
    /\ UNCHANGED <<assigned, writes>>

MemGetShipmentById ==
    /\ \E id \in MemIds : MemRespond("get", main_get_shipment_by_id(shipments, id), 200)
    /\ UNCHANGED <<assigned, writes>>

MemCreateShipment ==
    \/ MemInvalidCreateBodies # {} /\ MemReject("create")
    \/ /\ Len(assigned) < MaxCreates
       /\ \E body \in MemValidCreateBodies, rnd \in randint(DestinationMin, DestinationMax) :
            LET outcome == main_create_shipment(shipments, MemShipmentCreate(body), rnd)
                new_ids == DOMAIN outcome.store \ DOMAIN shipments
            IN /\ MemRespond("create", outcome, 201)
               /\ assigned' = IF new_ids = {} THEN assigned
                              ELSE Append(assigned, Max(new_ids))
       /\ UNCHANGED writes

MemUpdateShipment ==
    \/ MemInvalidUpdateBodies # {} /\ MemReject("update")
    \/ /\ writes < MaxWrites
       /\ \E id \in MemIds, body \in MemValidUpdateBodies :
            /\ MemRespond("update",
                          main_update_shipment(shipments, id, MemShipmentUpdate(body)), 200)
            /\ writes' = IF id \in DOMAIN shipments THEN writes + 1 ELSE writes
       /\ UNCHANGED assigned

MemPatchShipment ==
    \/ MemInvalidPatchBodies # {} /\ MemReject("patch")
    \/ /\ writes < MaxWrites
       /\ \E id \in MemIds, body \in MemValidPatchBodies :
            /\ MemRespond("patch", main_patch_shipment(shipments, id, body), 200)
            /\ writes' = IF id \in DOMAIN shipments THEN writes + 1 ELSE writes
       /\ UNCHANGED assigned

MemDeleteShipment ==
    /\ \E id \in MemIds : MemRespond("delete", main_delete_shipment(shipments, id), 204)
    /\ UNCHANGED <<assigned, writes>>

\* The SQL store is not part of this program: it stays empty.
InitMem ==
    /\ table = EmptyTable
    /\ seq = 0
    /\ shipments = SeedShipments
    /\ assigned = <<>>
    /\ writes = 0
    /\ deleted = {}
    /\ threads = NoThreads
    /\ conn = NoConnection
    /\ last = NoRequest

NextMem ==
    \/ MemGetLatestShipment
    \/ MemGetShipmentById
    \/ MemCreateShipment
    \/ MemUpdateShipment
    \/ MemPatchShipment
    \/ MemDeleteShipment

SpecMem == InitMem /\ [][NextMem]_vars

(***************************************************************************)
(* The service called directly, as the endpoints module and any other      *)
(* caller of ShipmentService may: the payload is a model object whose      *)
(* weight was not checked against the schema (pydantic validates neither   *)
(* model_construct nor an assignment to a field); its other fields are     *)
(* within their constraints.                                               *)
(***************************************************************************)
AnyWeightCreateBodies ==
    {b \in Bodies : /\ (Present(b, "content") /\ ContentOk(Get(b.content)))
                    /\ "weight" \in b.fields_set /\ ~IsNone(b.weight)
                    /\ (Present(b, "status") /\ StatusOk(Get(b.status)))
                    /\ (IsNone(b.destination) \/ DestinationOk(Get(b.destination)))}
AnyWeightUpdateBodies ==
    {b \in AnyWeightCreateBodies :
        Present(b, "destination") /\ DestinationOk(Get(b.destination))}
AnyWeightPatchBodies ==
    {b \in Bodies : /\ (IsNone(b.content) \/ ContentOk(Get(b.content)))
                    /\ (IsNone(b.status) \/ StatusOk(Get(b.status)))
                    /\ (IsNone(b.destination) \/ DestinationOk(Get(b.destination)))}

ServiceCreateData == {ShipmentCreate(b) : b \in AnyWeightCreateBodies}
ServiceUpdateData == {ShipmentUpdate(b) : b \in AnyWeightUpdateBodies}
ServicePatchData == {ShipmentPatch(b) : b \in AnyWeightPatchBodies}

ServiceCreateShipment ==
    /\ seq < MaxId
    /\ \E data \in ServiceCreateData, rnd \in randint(DestinationMin, DestinationMax) :
         Respond("create", create_shipment(Db, data, rnd), 201)

ServiceUpdateShipment ==
    \E id \in Ids, data \in ServiceUpdateData :
        Respond("update", update_shipment(Db, id, data), 200)

ServicePatchShipment ==
    \E id \in Ids, data \in ServicePatchData :
        Respond("patch", patch_shipment(Db, id, data), 200)

ServiceDeleteShipment == \E id \in Ids : Respond("delete", delete_shipment(Db, id), 204)

NextService ==
    \/ ServiceCreateShipment
    \/ ServiceUpdateShipment
    \/ ServicePatchShipment
    \/ ServiceDeleteShipment

SpecService == InitApi /\ [][NextService]_vars

(***************************************************************************)
(* Concurrent requests to the service. The endpoints are plain functions,  *)
(* which the framework runs on worker threads, so requests overlap; every  *)
(* repository call opens its own connection and commits its one statement, *)
(* so a service operation is a sequence of separate transactions and       *)
(* another request's calls can fall between any two of them. A step of the *)
(* model is one repository call. The store starts with one record; one     *)
(* create, one update, one patch and one delete may be sent.               *)
(***************************************************************************)
RaceInitialRow ==
    [id |-> 1, content |-> "books", weight |-> 6, status |-> "pending",
     destination |-> 11234]
RaceInitialDb ==
    [table |-> [i \in {RaceInitialRow.id} |-> RaceInitialRow], seq |-> RaceInitialRow.id]

EmptyBody ==
    [fields_set |-> {}, content |-> None, weight |-> None, status |-> None,
     destination |-> None]

\* A request: the operation, the point it has reached (pc), its arguments, the
\* status it was answered with (code, once pc is "done") and whether a
\* statement of its own changed the table (wrote).
NotSent(op) ==
    [op |-> op, pc |-> "start", id |-> 0, body |-> EmptyBody, rnd |-> 0, code |-> 0,
     wrote |-> FALSE]

RaceThreads == {"create", "update", "patch", "delete"}

\* The sample bodies of the concurrent requests: a create without destination,
\* updates to the first destination of the range, and patches that name no
\* field, the weight alone or the destination alone (null included).
RaceCreateBodies ==
    {x : x \in {b \in ValidCreateBodies :
                    b.fields_set = {"content", "weight", "status"} /\ b.content = Some(c100)}}
RaceUpdateBodies ==
    {x : x \in {b \in ValidUpdateBodies : b.destination = Some(DestinationMin)}}
RacePatchBodies ==
    {x : x \in {b \in ValidPatchBodies : b.fields_set \in {{}, {"weight"}, {"destination"}}}}

\* The arguments a request may be sent with: update and patch name the stored
\* record, delete names any id.
RaceInputs(op) ==
    IF op = "create"
    THEN {[id |-> 0, body |-> b, rnd |-> r] :
            b \in RaceCreateBodies, r \in randint(DestinationMin, DestinationMax)}
    ELSE IF op = "update"
    THEN {[id |-> RaceInitialRow.id, body |-> b, rnd |-> 0] : b \in RaceUpdateBodies}
    ELSE IF op = "patch"
    THEN {[id |-> RaceInitialRow.id, body |-> b, rnd |-> 0] : b \in RacePatchBodies}
    ELSE {[id |-> i, body |-> EmptyBody, rnd |-> 0] : i \in Ids}

\* patch_shipment: update_data = data.model_dump(exclude_unset=True), with the
\* status enum converted to its value
patch_update_data(data) ==
    LET dumped == model_dump_exclude_unset(data)
    IN [key \in DOMAIN dumped |->
           IF key = "status" /\ ~IsNone(dumped[key])
           THEN Some(ShipmentStatus[Get(dumped[key])])
           ELSE dumped[key]]

\* Mutant of RaceStatement: the patch writes every column of the row, the ones
\* its body does not name with the values of the row the store started with.
RaceStatement_PatchWholeRow(db, th) ==
    IF th.op = "create"
    THEN LET data == ShipmentCreate(th.body)
         IN insert(db, Some(data.content), Some(data.weight),
                   Some(ShipmentStatus[data.status]),
                   IF ~IsNone(data.destination) THEN data.destination ELSE Some(th.rnd))
    ELSE IF th.op = "update"
    THEN LET data == ShipmentUpdate(th.body)
         IN update_by_id(db, th.id, Some(data.content), Some(data.weight),
                         Some(ShipmentStatus[data.status]), Some(data.destination))
    ELSE IF th.op = "patch"
    THEN LET update_data == patch_update_data(ShipmentPatch(th.body))
             column(key) == IF key \in DOMAIN update_data THEN update_data[key]
                            ELSE Some(RaceInitialRow[key])
         IN update_by_id(db, th.id, column("content"), column("weight"),
                         column("status"), column("destination"))
    ELSE delete_by_id(db, th.id)

\* The one writing repository call of each operation, with the arguments the
\* service passes it.
RaceStatement(db, th) ==
    IF th.op = "create"
    THEN LET data == ShipmentCreate(th.body)
         IN insert(db, Some(data.content), Some(data.weight),
                   Some(ShipmentStatus[data.status]),
                   IF ~IsNone(data.destination) THEN data.destination ELSE Some(th.rnd))
    ELSE IF th.op = "update"
    THEN LET data == ShipmentUpdate(th.body)
         IN update_by_id(db, th.id, Some(data.content), Some(data.weight),
                         Some(ShipmentStatus[data.status]), Some(data.destination))
    ELSE IF th.op = "patch"
    THEN patch_by_id(db, th.id, patch_update_data(ShipmentPatch(th.body)))
    ELSE delete_by_id(db, th.id)

\* The request of thread t is answered with this status code.
RaceAnswer(t, th, status_code) ==
    /\ threads' = [threads EXCEPT ![t] = [th EXCEPT !.pc = "done", !.code = status_code]]
    /\ last' = Request(t, status_code)

\* The request arrives. create_shipment first checks the weight and draws the
\* destination; the others start with the existence check.
RaceSend(t) ==
    /\ threads[t].pc = "start"
    /\ \E input \in RaceInputs(t) :
         LET th == [threads[t] EXCEPT !.id = input.id, !.body = input.body,
                                      !.rnd = input.rnd]
         IN IF t = "create" /\ ShipmentCreate(input.body).weight > WeightLimit
            THEN RaceAnswer(t, th, 406)
            ELSE /\ threads' = [threads EXCEPT ![t] =
                                   [th EXCEPT !.pc = IF t = "create" THEN "write"
                                                     ELSE "exists"]]
                 /\ UNCHANGED last
    /\ UNCHANGED <<table, seq, shipments, assigned, writes, deleted, conn>>

\* if not self.repository.exists(shipment_id): raise HTTPException(404)
RaceExists(t) ==
    /\ threads[t].pc = "exists"
    /\ LET th == threads[t]
       IN IF ~exists(Db, th.id) THEN RaceAnswer(t, th, 404)
          ELSE /\ threads' = [threads EXCEPT ![t] =
                                 [th EXCEPT !.pc =
                                     IF t = "patch" /\
                                        DOMAIN patch_update_data(ShipmentPatch(th.body)) = {}
                                     THEN "read" ELSE "write"]]
               /\ UNCHANGED last
    /\ UNCHANGED <<table, seq, shipments, assigned, writes, deleted, conn>>

\* insert, update_by_id, patch_by_id or delete_by_id: one committed statement.
\* delete_shipment returns after it; the others go on to read the record back.
RaceWrite(t) ==
    /\ threads[t].pc = "write"
    /\ LET res == RaceStatement(Db, threads[t])
           th == [threads[t] EXCEPT !.wrote = (res.db # Db),
                                    !.id = IF t = "create" /\ res.ok THEN Get(res.value)
                                           ELSE @]
       IN /\ table' = res.db.table
          /\ seq' = res.db.seq
          /\ deleted' = deleted \cup (DOMAIN table \ DOMAIN res.db.table)
          /\ IF ~res.ok THEN RaceAnswer(t, th, 500)
             ELSE IF t = "delete" THEN RaceAnswer(t, th, 204)
             ELSE /\ threads' = [threads EXCEPT ![t] = [th EXCEPT !.pc = "read"]]
                  /\ UNCHANGED last
    /\ UNCHANGED <<shipments, assigned, writes, conn>>

\* return self.get_shipment(shipment_id)
RaceRead(t) ==
    /\ threads[t].pc = "read"
    /\ RaceAnswer(t, threads[t],
                  StatusCode(get_shipment(Db, threads[t].id),
                             IF t = "create" THEN 201 ELSE 200))
    /\ UNCHANGED <<table, seq, shipments, assigned, writes, deleted, conn>>

InitRace ==
    /\ table = RaceInitialDb.table
    /\ seq = RaceInitialDb.seq
    /\ shipments = EmptyTable
    /\ assigned = <<>>
    /\ writes = 0
    /\ deleted = {}
    /\ threads = [t \in RaceThreads |-> NotSent(t)]
    /\ conn = NoConnection
    /\ last = NoRequest

NextRace ==
    \E t \in RaceThreads :
        \/ RaceSend(t)
        \/ RaceExists(t)
        \/ RaceWrite(t)
        \/ RaceRead(t)

SpecRace == InitRace /\ [][NextRace]_vars

(***************************************************************************)
(* Concurrent creates in the in-memory variant. create_shipment of         *)
(* app/main.py is a plain function run on a worker thread; it holds no     *)
(* lock, so another request can run between its statements: computing      *)
(* new_id, storing the record under new_id, and reading it back for the    *)
(* response.                                                               *)
(***************************************************************************)
MemRaceThreads == {"create1", "create2"}

\* if data.weight > 25: raise 406; new_id = max(shipments.keys()) + 1; the
\* destination is drawn here when the body gives none
MemRaceNewId(t) ==
    /\ threads[t].pc = "start"
    /\ \E body \in MemValidCreateBodies, rnd \in randint(DestinationMin, DestinationMax) :
         LET th == [threads[t] EXCEPT !.body = body, !.rnd = rnd]
         IN IF MemShipmentCreate(body).weight > WeightLimit THEN RaceAnswer(t, th, 406)
            ELSE IF DOMAIN shipments = {} THEN RaceAnswer(t, th, 500)
            ELSE /\ threads' = [threads EXCEPT ![t] =
                                   [th EXCEPT !.pc = "store",
                                              !.id = Max(DOMAIN shipments) + 1]]
                 /\ UNCHANGED last
    /\ UNCHANGED <<table, seq, shipments, assigned, writes, deleted, conn>>

\* shipments[new_id] = {...}
MemRaceStore(t) ==
    /\ threads[t].pc = "store"
    /\ LET th == threads[t]
           data == MemShipmentCreate(th.body)
           record == [content |-> Some(data.content), weight |-> Some(data.weight),
                      status |-> Some(data.status),
                      destination |-> IF ~IsNone(data.destination) THEN data.destination
                                      ELSE Some(th.rnd)]
       IN /\ shipments' = [i \in DOMAIN shipments \cup {th.id} |->
                              IF i = th.id THEN record ELSE shipments[i]]
          /\ assigned' = Append(assigned, th.id)
          /\ threads' = [threads EXCEPT ![t] = [th EXCEPT !.pc = "return", !.wrote = TRUE]]
    /\ UNCHANGED <<table, seq, writes, deleted, conn, last>>

\* return Shipment(**shipments[new_id])
MemRaceReturn(t) ==
    /\ threads[t].pc = "return"
    /\ RaceAnswer(t, threads[t],
                  IF threads[t].id \notin DOMAIN shipments THEN 500
                  ELSE StatusCode(MemResponse(shipments, threads[t].id), 201))
    /\ UNCHANGED <<table, seq, shipments, assigned, writes, deleted, conn>>

InitMemRace ==
    /\ table = EmptyTable
    /\ seq = 0
    /\ shipments = SeedShipments
    /\ assigned = <<>>
    /\ writes = 0
    /\ deleted = {}
    /\ threads = [t \in MemRaceThreads |-> NotSent("create")]
    /\ conn = NoConnection
    /\ last = NoRequest

NextMemRace ==
    \E t \in MemRaceThreads :
        \/ MemRaceNewId(t)
        \/ MemRaceStore(t)
        \/ MemRaceReturn(t)

SpecMemRace == InitMemRace /\ [][NextMemRace]_vars

(***************************************************************************)
(* get_db, the context manager around every repository call               *)
(* (_get_connection returns get_db() unless a connection was injected):    *)
(*     conn = sqlite3.connect(...)                                         *)
(*     try: yield conn; conn.commit()                                      *)
(*     finally: conn.close()                                               *)
(* conn is the connection of the call in progress: the call, where get_db  *)
(* stands (pc), what was done on the connection (events), whether the body *)
(* raised, the store when the connection was opened (before) and the store *)
(* as the connection's transaction sees it (work). The table changes when  *)
(* the transaction is committed; closing discards what was not committed.  *)
(***************************************************************************)
\* The sample repository calls: an insert, a patch of the weight, a delete and
\* a read; a weight of None is a NULL parameter, which the statement rejects.
DbCalls ==
    {[name |-> "insert", id |-> 0, weight |-> w] : w \in {None, Some(249)}}
    \cup {[name |-> "patch_by_id", id |-> i, weight |-> w] : i \in Ids, w \in {None, Some(6)}}
    \cup {[name |-> "delete_by_id", id |-> i, weight |-> None] : i \in Ids}
    \cup {[name |-> "find_by_id", id |-> i, weight |-> None] : i \in Ids}

\* The body of the with block of the call, run on the store db.
DbBody(db, call) ==
    IF call.name = "insert"
    THEN insert(db, Some("books"), call.weight, Some("pending"), Some(DestinationMin))
    ELSE IF call.name = "patch_by_id"
    THEN patch_by_id(db, call.id, [key \in {"weight"} |-> call.weight])
    ELSE IF call.name = "delete_by_id"
    THEN delete_by_id(db, call.id)
    ELSE Done(db, find_by_id(db, call.id))

\* Mutant of get_db_after_body: conn.commit() moved into the finally clause.
get_db_after_body_CommitInFinally(raised) == "commit"
\* Where get_db goes when the with block ends: on to conn.commit() when the
\* body completed, straight to the finally clause when it raised.
get_db_after_body(raised) == IF raised THEN "close" ELSE "commit"

\* conn = sqlite3.connect(settings.DATABASE_PATH)
DbConnect ==
    /\ conn.pc \in {"none", "exit"}
    /\ \E call \in DbCalls :
         /\ call.name = "insert" => seq < MaxId
         /\ conn' = [pc |-> "body", call |-> call, events |-> <<"connect">>,
                     raised |-> FALSE, before |-> Db, work |-> Db]
    /\ UNCHANGED <<table, seq, shipments, assigned, writes, deleted, threads, last>>

\* yield conn: the with block runs its statement
DbExecute ==
    /\ conn.pc = "body"
    /\ LET res == DbBody(conn.work, conn.call)
       IN conn' = [conn EXCEPT !.pc = get_db_after_body(~res.ok),
                               !.events = Append(@, "execute"),
                               !.raised = ~res.ok,
                               !.work = res.db]
    /\ UNCHANGED <<table, seq, shipments, assigned, writes, deleted, threads, last>>

\* conn.commit()
DbCommit ==
    /\ conn.pc = "commit"
    /\ table' = conn.work.table
    /\ seq' = conn.work.seq
    /\ deleted' = deleted \cup (DOMAIN table \ DOMAIN conn.work.table)
    /\ conn' = [conn EXCEPT !.pc = "close", !.events = Append(@, "commit")]
    /\ UNCHANGED <<shipments, assigned, writes, threads, last>>

\* finally: conn.close(); the call then returns, or raises what its body raised
DbClose ==
    /\ conn.pc = "close"
    /\ conn' = [conn EXCEPT !.pc = "exit", !.events = Append(@, "close"), !.work = Db]
    /\ last' = Request(conn.call.name, IF conn.raised THEN 500 ELSE 200)
    /\ UNCHANGED <<table, seq, shipments, assigned, writes, deleted, threads>>

InitGetDb ==
    /\ table = EmptyTable
    /\ seq = 0
    /\ shipments = EmptyTable
    /\ assigned = <<>>
    /\ writes = 0
    /\ deleted = {}
    /\ threads = NoThreads
    /\ conn = NoConnection
    /\ last = NoRequest

NextGetDb ==
    \/ DbConnect
    \/ DbExecute
    \/ DbCommit
    \/ DbClose

SpecGetDb == InitGetDb /\ [][NextGetDb]_vars

(***************************************************************************)
(* Properties.                                                             *)
(***************************************************************************)
WriteCalls == {"insert", "update_by_id", "patch_by_id", "delete_by_id"}
NoWrite(calls) == \A i \in DOMAIN calls : calls[i] \notin WriteCalls
\* The operation raised HTTPException(status_code) and left the store as it was.
FailsWith(outcome, status_code) ==
    /\ outcome.exc = "HTTPException"
    /\ outcome.code = status_code
    /\ NoWrite(outcome.calls)
    /\ outcome.db = Db

\* C1: a payload whose weight is 25 kg or more, handed to create_shipment,
\* or to update_shipment or patch_shipment on an existing id, is refused by
\* the service with 406 before any repository write, and no stored record
\* has a weight of 25 kg or more.
C1_HeavyPayloadRefused ==
    /\ \A data \in ServiceCreateData, rnd \in randint(DestinationMin, DestinationMax) :
         data.weight >= WeightLimit => FailsWith(create_shipment(Db, data, rnd), 406)
    /\ \A id \in DOMAIN table, data \in ServiceUpdateData :
         data.weight >= WeightLimit => FailsWith(update_shipment(Db, id, data), 406)
    /\ \A id \in DOMAIN table, data \in ServicePatchData :
         (~IsNone(data.weight) /\ Get(data.weight) >= WeightLimit)
            => FailsWith(patch_shipment(Db, id, data), 406)
    /\ \A id \in DOMAIN table : table[id].weight < WeightLimit

\* C2: with bodies the request schemas accept, every row of the SQL store
\* has 0 < weight < 25 kg.
C2_StoredWeightInRange ==
    \A id \in DOMAIN table : table[id].weight > 0 /\ table[id].weight < WeightLimit

\* Every id has been assigned, a record is stored and the last request, an
\* update, was accepted and carried out.
C2_Witness ==
    /\ last = Request("update", 200)
    /\ seq = MaxId
    /\ \E id \in DOMAIN table : table[id].weight = 249

\* C3: no record at rest lacks a field, in the in-memory store and in the
\* SQL store alike.
C3_NoPartialRecord ==
    /\ \A id \in DOMAIN shipments : \A f \in Fields : ~IsNone(shipments[id][f])
    /\ \A id \in DOMAIN table : DOMAIN table[id] = Fields \cup {"id"}

\* C4: the in-memory create_shipment never assigns an id that an earlier
\* record had: not a seeded record's id, not an id it assigned before.
C4_IdNeverReused ==
    /\ \A i \in DOMAIN assigned : assigned[i] \notin FirstSeedId..LastSeedId
    /\ \A i, j \in DOMAIN assigned : i # j => assigned[i] # assigned[j]

\* C5: the latest-shipment query answers 404 on an empty store and otherwise
\* returns the record with the largest id; here for the in-memory variant.
C5_LatestOrNotFound ==
    /\ (last.op = "get_latest" /\ DOMAIN shipments = {}) => last.code = 404
    /\ LET o == main_get_latest_shipment(shipments)
       IN (DOMAIN shipments # {} /\ o.exc = "")
            => o.ret = Some(shipments[Max(DOMAIN shipments)])

\* C6: get_shipment_field fails with 404 for an absent id, returns the stored
\* value for content, weight, status and destination, and fails with 400 for
\* every other name, "id" included, listing exactly those four names.
C6_FieldOrInvalidField ==
    \A id \in Ids, field_name \in FieldNames :
        LET o == get_shipment_field(Db, id, field_name)
        IN IF id \notin DOMAIN table THEN FailsWith(o, 404)
           ELSE IF field_name \in Fields
                THEN o.exc = "" /\ o.ret = Some(table[id][field_name])
           ELSE /\ FailsWith(o, 400)
                /\ o.detail = <<"content", "weight", "status", "destination">>

\* C7: every stored record has a content of 1 to 100 characters.
C7_ContentLength ==
    \A id \in DOMAIN table :
        Len(table[id].content) >= 1 /\ Len(table[id].content) <= ContentMaxLength

\* The table of db with the row of shipment_id left out.
Others(db, shipment_id) == [i \in DOMAIN db.table \ {shipment_id} |-> db.table[i]]

\* C8: patch_shipment on an existing id leaves the id, every field the body
\* does not name and every other record as they were, and stores the value
\* of every field the body names when it returns; a body that names no field
\* issues no write, leaves the store unchanged and returns the current
\* record; a patch that raises changes nothing.
C8_PatchFrame ==
    \A id \in DOMAIN table, body \in ValidPatchBodies :
        LET o == patch_shipment(Db, id, ShipmentPatch(body))
            row == o.db.table[id]
        IN /\ DOMAIN o.db.table = DOMAIN table
           /\ o.db.seq = seq
           /\ Others(o.db, id) = Others(Db, id)
           /\ row.id = id
           /\ \A f \in Fields \ body.fields_set : row[f] = table[id][f]
           /\ o.exc = "" => \A f \in body.fields_set : row[f] = Get(body[f])
           /\ o.exc # "" => o.db = Db
           /\ body.fields_set = {} =>
                /\ NoWrite(o.calls)
                /\ o.db = Db
                /\ o.exc = ""
                /\ \A f \in Fields \cup {"id"} :
                     table[id][f] = IF f = "status" THEN ShipmentStatus[Get(o.ret)[f]]
                                    ELSE Get(o.ret)[f]

\* A patch succeeded on a store of two records that differ in content and
\* in destination.
C8_Witness ==
    /\ last = Request("patch", 200)
    /\ \E i, j \in DOMAIN table :
         /\ table[i].content # table[j].content
         /\ table[i].destination # table[j].destination

\* C9: get_shipment, get_shipment_field, update_shipment, patch_shipment and
\* delete_shipment on an id that is not in the store fail with 404 and leave
\* the store as it was.
C9_AbsentIdNotFound ==
    \A id \in Ids \ DOMAIN table :
        /\ FailsWith(get_shipment(Db, id), 404)
        /\ \A field_name \in FieldNames :
             FailsWith(get_shipment_field(Db, id, field_name), 404)
        /\ \A body \in ValidUpdateBodies :
             FailsWith(update_shipment(Db, id, ShipmentUpdate(body)), 404)
        /\ \A body \in ValidPatchBodies :
             FailsWith(patch_shipment(Db, id, ShipmentPatch(body)), 404)
        /\ FailsWith(delete_shipment(Db, id), 404)

\* A delete was answered 404 while the store holds a record: the id it
\* named had been deleted or never assigned.
C9_Witness ==
    /\ last = Request("delete", 404)
    /\ DOMAIN table # {}
    /\ Ids \ DOMAIN table # {}

\* C10: create_shipment with an accepted body returns the record that
\* get_shipment reads back under the id it assigned; the id was not in the
\* store and is larger than every id assigned before; content, weight and
\* status are the body's, the destination is the body's when it gives one
\* and the drawn one otherwise; no other record changes.
C10_CreateRoundTrip ==
    \A body \in ValidCreateBodies, rnd \in randint(DestinationMin, DestinationMax) :
        LET o == create_shipment(Db, ShipmentCreate(body), rnd)
            created == Get(o.ret)
            read == get_shipment(o.db, created.id)
        IN /\ o.exc = ""
           /\ created.id \notin DOMAIN table
           /\ created.id > seq
           /\ read.exc = "" /\ read.ret = o.ret
           /\ created.content = Get(body.content)
           /\ created.weight = Get(body.weight)
           /\ ShipmentStatus[created.status] = Get(body.status)
           /\ created.destination =
                IF "destination" \in body.fields_set /\ ~IsNone(body.destination)
                THEN Get(body.destination) ELSE rnd
           /\ DOMAIN o.db.table = DOMAIN table \cup {created.id}
           /\ Others(o.db, created.id) = table

\* A create succeeded after an earlier record was deleted: every id has been
\* assigned and the first is gone.
C10_Witness ==
    /\ last = Request("create", 201)
    /\ seq = MaxId
    /\ 1 \notin DOMAIN table
    /\ MaxId \in DOMAIN table

\* C11: update_shipment on an existing id with an accepted body stores the
\* body's content, weight, status and destination, leaves the id of that
\* record and every other record as they were, and returns the record read
\* back from the store: the body's values under the unchanged id.
C11_UpdateOverwrites ==
    \A id \in DOMAIN table, body \in ValidUpdateBodies :
        LET o == update_shipment(Db, id, ShipmentUpdate(body))
            row == o.db.table[id]
            returned == Get(o.ret)
        IN /\ o.exc = ""
           /\ DOMAIN o.db.table = DOMAIN table
           /\ o.db.seq = seq
           /\ Others(o.db, id) = Others(Db, id)
           /\ row.id = id
           /\ \A f \in Fields : row[f] = Get(body[f])
           /\ o.ret = get_shipment(o.db, id).ret
           /\ returned.id = id
           /\ returned.content = Get(body.content)
           /\ returned.weight = Get(body.weight)
           /\ ShipmentStatus[returned.status] = Get(body.status)
           /\ returned.destination = Get(body.destination)

\* An update succeeded on a store of two records whose destinations differ:
\* the record it did not name kept its own.
C11_Witness ==
    /\ last = Request("update", 200)
    /\ Cardinality(DOMAIN table) = 2
    /\ \E i, j \in DOMAIN table : table[i].destination # table[j].destination

\* C12: once delete_shipment has removed an id, get_shipment and a second
\* delete_shipment on that id fail with 404, whatever requests were handled
\* since: the id is among those already assigned, and no create assigns it
\* again.
C12_DeletedStaysNotFound ==
    \A id \in deleted :
        /\ FailsWith(get_shipment(Db, id), 404)
        /\ FailsWith(delete_shipment(Db, id), 404)
        /\ id <= seq
        /\ \A body \in ValidCreateBodies, rnd \in randint(DestinationMin, DestinationMax) :
             id \notin DOMAIN create_shipment(Db, ShipmentCreate(body), rnd).db.table

\* The first id was deleted, a later create stored the last id, and a get was
\* then answered 404.
C12_Witness ==
    /\ last = Request("get", 404)
    /\ deleted = {1}
    /\ DOMAIN table = {MaxId}

InRange(d) == d >= 11000 /\ d <= 11999

\* C13: with bodies the request schemas accept, every row's destination lies
\* in [11000, 11999]; create stores the body's destination when it gives one
\* and the drawn value, which lies in the range, otherwise; update and patch
\* store only destinations in the range.
C13_DestinationInRange ==
    /\ \A id \in DOMAIN table : InRange(table[id].destination)
    /\ \A body \in ValidCreateBodies, rnd \in randint(DestinationMin, DestinationMax) :
          LET o == create_shipment(Db, ShipmentCreate(body), rnd)
              stored == o.db.table[o.db.seq].destination
          IN /\ InRange(rnd)
             /\ o.db.seq \notin DOMAIN table
             /\ stored = IF IsNone(body.destination) THEN rnd ELSE Get(body.destination)
             /\ InRange(stored)
    /\ \A id \in DOMAIN table, body \in ValidUpdateBodies :
          InRange(update_shipment(Db, id, ShipmentUpdate(body)).db.table[id].destination)
    /\ \A id \in DOMAIN table, body \in ValidPatchBodies :
          InRange(patch_shipment(Db, id, ShipmentPatch(body)).db.table[id].destination)

\* A patch succeeded and the store holds a record at each end of the range.
C13_Witness ==
    /\ last = Request("patch", 200)
    /\ \E i, j \in DOMAIN table :
         table[i].destination = 11000 /\ table[j].destination = 11999

\* The stored record after update_shipment then patch_shipment, and after
\* patch_shipment then update_shipment, each run whole on the initial store.
UpdateThenPatch(update_body, patch_body) ==
    LET updated == update_shipment(RaceInitialDb, RaceInitialRow.id,
                                   ShipmentUpdate(update_body)).db
    IN patch_shipment(updated, RaceInitialRow.id, ShipmentPatch(patch_body)).db.table
PatchThenUpdate(update_body, patch_body) ==
    LET patched == patch_shipment(RaceInitialDb, RaceInitialRow.id,
                                  ShipmentPatch(patch_body)).db
    IN update_shipment(patched, RaceInitialRow.id, ShipmentUpdate(update_body)).db.table

\* C14: when an update and a patch of the same record have both been
\* answered, however their repository calls were interleaved, the record, if
\* no delete removed it, is what one of the two serial orders stores, and its
\* id is unchanged.
C14_LastWriterWins ==
    LET u == threads["update"]
        p == threads["patch"]
        id == RaceInitialRow.id
    IN (u.pc = "done" /\ p.pc = "done" /\ id \in DOMAIN table) =>
          /\ table[id].id = id
          /\ table[id] \in {UpdateThenPatch(u.body, p.body)[id],
                            PatchThenUpdate(u.body, p.body)[id]}

\* Both requests wrote and were answered, and the patch's destination is the
\* one stored: the update, which names another destination, wrote first.
C14_Witness ==
    /\ threads["update"].pc = "done" /\ threads["update"].wrote
    /\ threads["patch"].pc = "done" /\ threads["patch"].wrote
    /\ RaceInitialRow.id \in DOMAIN table
    /\ table[RaceInitialRow.id].destination = DestinationMax

\* How many times the event was done on the connection.
Count(event) == Cardinality({i \in DOMAIN conn.events : conn.events[i] = event})

\* C15: a connection is opened once and closed at most once, and exactly once
\* when the call has left get_db, whether its body returned or raised; the
\* commit is issued only when the body completed and comes before the close;
\* a call that returned has committed what its statement did, one that raised
\* has committed nothing, and nothing is stored before the commit.
C15_ScopedConnection ==
    /\ Count("connect") <= 1 /\ Count("commit") <= 1 /\ Count("close") <= 1
    /\ conn.pc = "exit" =>
         /\ Count("connect") = 1
         /\ Count("close") = 1
         /\ conn.events[Len(conn.events)] = "close"
    /\ Count("commit") = 1 => ~conn.raised
    /\ \A i, j \in DOMAIN conn.events :
         (conn.events[i] = "commit" /\ conn.events[j] = "close") => i < j
    /\ (conn.pc = "exit" /\ ~conn.raised) =>
         /\ Count("commit") = 1
         /\ Db = DbBody(conn.before, conn.call).db
    /\ (conn.pc = "exit" /\ conn.raised) => (Count("commit") = 0 /\ Db = conn.before)
    /\ (conn.pc \in {"body", "commit"}) => Db = conn.before

\* A call whose statement raised has left get_db, on a store that holds a
\* record.
C15_Witness ==
    /\ conn.pc = "exit"
    /\ conn.raised
    /\ conn.events = <<"connect", "execute", "close">>
    /\ DOMAIN table # {}


\* C16: a create, update or patch that is answered 404 while a delete runs
\* concurrently has left the store unchanged: no statement of its own was
\* committed.
C16_NotFoundOnlyIfUnchanged ==
    \A t \in {"create", "update", "patch"} :
        (threads[t].pc = "done" /\ threads[t].code = 404) => ~threads[t].wrote

\* C17: two concurrent in-memory creates, both answered, were assigned
\* distinct ids and both records are in the store: the store has grown by two.
C17_ConcurrentCreatesDistinct ==
    LET a == threads["create1"]
        b == threads["create2"]
    IN (a.pc = "done" /\ b.pc = "done") =>
          /\ a.id # b.id
          /\ {a.id, b.id} \subseteq DOMAIN shipments
          /\ Cardinality(DOMAIN shipments) = Cardinality(DOMAIN SeedShipments) + 2

====
